---- MODULE Spec2Model ----
(***************************************************************************)
(* Model of bio2bel_kegg: the KEGG description flat-file parser            *)
(* (parsers.py), the field projection that follows it, and the population  *)
(* of the pathway / protein / membership tables (manager.py).              *)
(*                                                                         *)
(* A Python str is a sequence of one-character strings, a tuple or list a  *)
(* sequence, a dict a function whose DOMAIN is the set of its keys (an     *)
(* ordered dict a sequence of <<key, value>> pairs where the iteration     *)
(* order matters).  An exception is a record [type, args].                 *)
(***************************************************************************)
EXTENDS Integers, Sequences, FiniteSets, TLC

(***************************************************************************)
(* Bounds of the model.                                                    *)
(***************************************************************************)
MaxLines == 4
MaxPairs == 2
MaxMembers == 2
MaxPathways == 3

(***************************************************************************)
(* Python string primitives.  The alphabet is ASCII and the Unicode        *)
(* whitespace; a character that cannot be written in a string literal is   *)
(* the one-element token named after its code point ("U+000B").            *)
(***************************************************************************)
\* the characters str.strip(), str.split() and the regex class \s take as
\* whitespace (str.isspace)
WHITESPACE ==
    { " ", "\t", "\n", "\r", "\f", "U+000B", "U+001C", "U+001D", "U+001E", "U+001F",
      "U+0085", "U+00A0", "U+1680", "U+2000", "U+2001", "U+2002", "U+2003", "U+2004",
      "U+2005", "U+2006", "U+2007", "U+2008", "U+2009", "U+200A", "U+2028", "U+2029",
      "U+202F", "U+205F", "U+3000" }

startswith(s, prefix) ==
    /\ Len(s) >= Len(prefix)
    /\ SubSeq(s, 1, Len(prefix)) = prefix

\* str.find for a one-character needle, 1-based; 0 when absent
find(s, c) ==
    IF \E i \in 1..Len(s) : s[i] = c
    THEN CHOOSE i \in 1..Len(s) : s[i] = c /\ \A j \in 1..(i - 1) : s[j] # c
    ELSE 0

RECURSIVE lstrip(_, _)
lstrip(s, chars) ==
    IF Len(s) > 0 /\ s[1] \in chars THEN lstrip(SubSeq(s, 2, Len(s)), chars) ELSE s

RECURSIVE rstrip(_, _)
rstrip(s, chars) ==
    IF Len(s) > 0 /\ s[Len(s)] \in chars THEN rstrip(SubSeq(s, 1, Len(s) - 1), chars) ELSE s

strip(s, chars) == rstrip(lstrip(s, chars), chars)

\* str.split(sep, maxsplit) for a one-character sep; maxsplit = -1 is unlimited
RECURSIVE split_sep(_, _, _)
split_sep(s, sep, maxsplit) ==
    LET i == find(s, sep)
    IN  IF maxsplit = 0 \/ i = 0
        THEN <<s>>
        ELSE <<SubSeq(s, 1, i - 1)>> \o split_sep(SubSeq(s, i + 1, Len(s)), sep, maxsplit - 1)

\* number of leading elements of s that are (inSet) or are not (~inSet) in chars
RECURSIVE span(_, _, _)
span(s, chars, inSet) ==
    IF Len(s) > 0 /\ ((s[1] \in chars) = inSet)
    THEN 1 + span(SubSeq(s, 2, Len(s)), chars, inSet)
    ELSE 0

\* str.split() without arguments: the maximal runs of non-whitespace
RECURSIVE split_ws(_)
split_ws(s) ==
    LET t == lstrip(s, WHITESPACE)
        n == span(t, WHITESPACE, FALSE)
    IN  IF Len(t) = 0 THEN <<>>
        ELSE <<SubSeq(t, 1, n)>> \o split_ws(SubSeq(t, n + 1, Len(t)))

\* re.split(r'\s{2,}', s): split at every maximal run of two or more whitespace
RECURSIVE re_split_ws2(_)
re_split_ws2(s) ==
    IF \E i \in 1..(Len(s) - 1) : s[i] \in WHITESPACE /\ s[i + 1] \in WHITESPACE
    THEN LET i == CHOOSE k \in 1..(Len(s) - 1) :
                      /\ s[k] \in WHITESPACE /\ s[k + 1] \in WHITESPACE
                      /\ \A j \in 1..(k - 1) : ~(s[j] \in WHITESPACE /\ s[j + 1] \in WHITESPACE)
             n == span(SubSeq(s, i, Len(s)), WHITESPACE, TRUE)
         IN  <<SubSeq(s, 1, i - 1)>> \o re_split_ws2(SubSeq(s, i + n, Len(s)))
    ELSE <<s>>

(***************************************************************************)
(* Exceptions.  The built-in exceptions raised by the parser carry a fixed *)
(* message and none of the input text, so args is empty.                   *)
(***************************************************************************)
NoError == [type |-> "", args |-> <<>>]
Raise(t) == [type |-> t, args |-> <<>>]
Ok(v) == [exc |-> NoError, val |-> v]
Fail(t) == [exc |-> Raise(t), val |-> <<>>]

(***************************************************************************)
(* parsers.py (description parser)                                         *)
(***************************************************************************)
StripSpace(tok) == strip(tok, {" "})

\* tuple(x.strip(' ') for x in seq)
StripEach(seq) == [i \in 1..Len(seq) |-> StripSpace(seq[i])]

parse_entry_line(line) ==
    LET words == split_ws(line)
    IN  StripEach(SubSeq(words, 2, Len(words)))

\* string.split(' ', 1)[1].strip(): IndexError when the line has no space
remove_first_word(string) ==
    LET parts == split_sep(string, " ", 1)
    IN  IF Len(parts) < 2 THEN Fail("IndexError")
        ELSE Ok(strip(parts[2], WHITESPACE))

get_first_word(string) == split_sep(string, " ", 1)[1]

parse_pathway_line(line) ==
    LET rest == remove_first_word(line)
    IN  IF rest.exc # NoError THEN rest
        ELSE Ok(StripEach(re_split_ws2(rest.val)))

\* column, link_id = line.split(":") : ValueError unless exactly two parts
parse_link_line(line) ==
    LET rest == remove_first_word(line)
    IN  IF rest.exc # NoError THEN rest
        ELSE LET parts == split_sep(rest.val, ":", -1)
             IN  IF Len(parts) # 2 THEN Fail("ValueError")
                 ELSE Ok(<<strip(parts[1], WHITESPACE), strip(parts[2], WHITESPACE)>>)

\* the local variable keyword of parse_description: unbound until assigned
Unbound == [bound |-> FALSE, word |-> <<>>]

KeywordAfterEveryLine(keyword, line) == [bound |-> TRUE, word |-> get_first_word(line)]

\* if not line.startswith(' '): keyword = get_first_word(line)
KeywordAfter(keyword, line) ==
    IF ~startswith(line, <<" ">>)
    THEN [bound |-> TRUE, word |-> get_first_word(line)]
    ELSE keyword

DictSet(d, k, v) == [x \in (DOMAIN d) \cup {k} |-> IF x = k THEN v ELSE d[x]]

\* if key not in description: description[key] = [t] else: description[key].append(t)
AppendTo(d, k, t) ==
    IF k \notin DOMAIN d THEN DictSet(d, k, <<t>>) ELSE DictSet(d, k, Append(d[k], t))

KW_ENTRY == <<"E", "N", "T", "R", "Y">>
KW_NAME == <<"N", "A", "M", "E">>
KW_PATHWAY == <<"P", "A", "T", "H", "W", "A", "Y">>
KW_DBLINKS == <<"D", "B", "L", "I", "N", "K", "S">>

\* one iteration of the loop of parse_description, after keyword is updated
LineEffect(kw, d, line) ==
    IF ~kw.bound THEN Fail("UnboundLocalError")
    ELSE IF kw.word = KW_ENTRY THEN Ok(DictSet(d, "ENTRY", parse_entry_line(line)))
    ELSE IF kw.word = KW_NAME THEN
        LET entry_name == parse_entry_line(line)
        IN  IF Len(entry_name) > 0
            THEN Ok(DictSet(d, "ENTRY_NAME", strip(entry_name[1], {";"})))
            ELSE Ok(d)
    ELSE IF kw.word = KW_PATHWAY THEN
        LET t == parse_pathway_line(line)
        IN  IF t.exc # NoError THEN t ELSE Ok(AppendTo(d, "PATHWAY", t.val))
    ELSE IF kw.word = KW_DBLINKS THEN
        LET t == parse_link_line(line)
        IN  IF t.exc # NoError THEN t ELSE Ok(AppendTo(d, "DBLINKS", t.val))
    ELSE Ok(d)

(***************************************************************************)
(* State.                                                                  *)
(*   lines        the lines response.iter_lines() has delivered so far     *)
(*   keyword      local variable keyword of parse_description              *)
(*   description  local variable description of parse_description          *)
(*   pstatus      "running", "returned" (line 197) or "raised"             *)
(*   perror       the exception that left parse_description, if any        *)
(*   columns      argument columns of get_description_properties           *)
(*   kegg_attributes  the dict get_description_properties returned         *)
(*   models       the dict kegg_properties_to_models returned              *)
(*   jpc          position in process_protein_info_to_model after parsing  *)
(*   jerror       the exception that left the projection, if any           *)
(*   organisms    argument organisms of Manager.populate                   *)
(*   pathways_lines     the pathway records fetched for the pathway table  *)
(*   entity_pathway_df  the rows (kegg_protein_id, kegg_pathway_id)        *)
(*   bad_records  ids of the fetched records that cannot be parsed         *)
(*   mpc, mi      position in Manager.populate and its current loop index  *)
(*   todo         the organisms _populate_pathways_species has yet to do   *)
(*   species      the Species object of the running _populate_pathways     *)
(*   session_pathways   the Pathway objects of the session                 *)
(*   session_proteins   the Protein objects of the session, in the order   *)
(*                      they were added                                    *)
(*   proteins     local list proteins of _populate_pathway_protein         *)
(*   kegg_protein_id_to_protein  local dict from KEGG id to the Protein    *)
(*                      built for it (its position in session_proteins)    *)
(*   committed    what session.commit() has made durable                   *)
(*   merror       the exception that left populate, if any                 *)
(*   graph        the result of the last get_pathway_graph call            *)
(*   caller_graph    the caller-supplied graph the enrichment works on      *)
(*   previous_graph  the caller's graph as it was before the last call      *)
(*   enrich_calls    the enrichment operations applied to it, in order      *)
(***************************************************************************)
VARIABLES lines, keyword, description, pstatus, perror,
          columns, kegg_attributes, models, jpc, jerror,
          organisms, pathways_lines, entity_pathway_df, bad_records, mpc, mi,
          todo, species, session_pathways, session_proteins, proteins,
          kegg_protein_id_to_protein, committed, merror, graph,
          caller_graph, previous_graph, enrich_calls

managerVars == <<organisms, pathways_lines, entity_pathway_df, bad_records, mpc, mi,
                 todo, species, session_pathways, session_proteins, proteins,
                 kegg_protein_id_to_protein, committed, merror, graph>>

parserVars == <<lines, keyword, description, pstatus, perror>>
projectVars == <<columns, kegg_attributes, models, jpc, jerror>>
enrichVars == <<caller_graph, previous_graph, enrich_calls>>

(***************************************************************************)
(* The lines an entity block is drawn from.                                *)
(***************************************************************************)
L_ENTRY == KW_ENTRY \o <<" ", "a", " ", "b">>
L_NAME == KW_NAME \o <<" ", " ", "a", ";", " ", "b">>
L_PATHWAY == KW_PATHWAY \o <<" ", " ", "a", " ", "\t", "b", " ", "c">>
L_PATHWAY_BARE == KW_PATHWAY
L_DBLINKS == KW_DBLINKS \o <<" ", " ", "a", ":", " ", "b">>
L_DBLINKS_NOCOLON == KW_DBLINKS \o <<" ", "a", " ", "b">>
L_DBLINKS_TWOCOLON == KW_DBLINKS \o <<" ", "a", ":", " ", "b", ":", "c">>
L_DBLINKS_BARE == KW_DBLINKS
L_CONT_COLON == <<" ", " ", "b", ":", " ", "c", " ", "a">>
L_CONT_PLAIN == <<" ", " ", "c", " ", " ", "d", ";">>
L_MOTIF == <<"M", "O", "T", "I", "F">> \o <<" ", "a", ":", " ", "b">>
L_DBLINKS_FEED == KW_DBLINKS \o <<" ", "a", ":", "\f", "b", "U+00A0">>
L_EMPTY == <<>>

LinePool ==
    { L_ENTRY, L_NAME, L_PATHWAY, L_PATHWAY_BARE, L_DBLINKS, L_DBLINKS_NOCOLON,
      L_DBLINKS_TWOCOLON, L_DBLINKS_BARE, L_CONT_COLON, L_CONT_PLAIN, L_MOTIF,
      L_DBLINKS_FEED, L_EMPTY }

EmptyDict == [x \in {} |-> <<>>]

ParserInit ==
    /\ lines = <<>>
    /\ keyword = Unbound
    /\ description = EmptyDict
    /\ pstatus = "running"
    /\ perror = NoError

\* parse_description, one iteration of "for line in response.iter_lines()"
ParseDescriptionLine(line) ==
    /\ pstatus = "running"
    /\ Len(lines) < MaxLines
    /\ lines' = Append(lines, line)
    /\ LET kw == KeywordAfter(keyword, line)
           r == LineEffect(kw, description, line)
       IN  /\ keyword' = kw
           /\ IF r.exc = NoError
              THEN /\ description' = r.val
                   /\ UNCHANGED <<pstatus, perror>>
              ELSE /\ pstatus' = "raised"
                   /\ perror' = r.exc
                   /\ UNCHANGED description
    /\ UNCHANGED <<projectVars, managerVars, enrichVars>>

\* parse_description, "return description" once the lines are exhausted
ParseDescriptionReturn ==
    /\ pstatus = "running"
    /\ pstatus' = "returned"
    /\ UNCHANGED <<lines, keyword, description, perror>>
    /\ UNCHANGED <<projectVars, managerVars, enrichVars>>

(***************************************************************************)
(* parsers.py: get_description_properties and kegg_properties_to_models.   *)
(* A dict is kept here as the sequence of its <<key, value>> items in      *)
(* insertion order: assigning an existing key keeps its position.          *)
(***************************************************************************)
MaxValueLen == 255

ItemSet(d, k, v) ==
    IF \E i \in 1..Len(d) : d[i][1] = k
    THEN [i \in 1..Len(d) |-> IF d[i][1] = k THEN <<k, v>> ELSE d[i]]
    ELSE Append(d, <<k, v>>)

\* { pair[0]: pair[1] for pair in pairs[1..n] if pair[0] in cols }
RECURSIVE FilterPairs(_, _, _)
FilterPairs(pairs, cols, n) ==
    IF n = 0 THEN <<>>
    ELSE LET d == FilterPairs(pairs, cols, n - 1)
         IN  IF pairs[n][1] \in cols THEN ItemSet(d, pairs[n][1], pairs[n][2]) ELSE d

\* description[description_property] raises KeyError when the section is absent
get_description_properties(d, description_property, cols) ==
    IF description_property \notin DOMAIN d THEN Fail("KeyError")
    ELSE Ok(FilterPairs(d[description_property], cols, Len(d[description_property])))

UPPERCASE ==
    << "A", "B", "C", "D", "E", "F", "G", "H", "I", "J", "K", "L", "M",
       "N", "O", "P", "Q", "R", "S", "T", "U", "V", "W", "X", "Y", "Z" >>

LOWERCASE ==
    << "a", "b", "c", "d", "e", "f", "g", "h", "i", "j", "k", "l", "m",
       "n", "o", "p", "q", "r", "s", "t", "u", "v", "w", "x", "y", "z" >>

\* str.lower() on one character
LowerChar(c) ==
    IF \E i \in 1..Len(UPPERCASE) : UPPERCASE[i] = c
    THEN LOWERCASE[CHOOSE i \in 1..Len(UPPERCASE) : UPPERCASE[i] = c]
    ELSE c

lower(s) == [i \in 1..Len(s) |-> LowerChar(s[i])]

\* '{}_id'.format(key.lower())
ModelKey(key) == lower(key) \o <<"_", "i", "d">>

KeepValueUpTo(value) == Len(value) <= MaxValueLen

\* if len(value) < 255
KeepValue(value) == Len(value) < MaxValueLen

\* { '{}_id'.format(key.lower()): value for key, value in items if len(value) < 255 }
RECURSIVE RenameItems(_, _)
RenameItems(items, n) ==
    IF n = 0 THEN <<>>
    ELSE LET d == RenameItems(items, n - 1)
         IN  IF KeepValue(items[n][2])
             THEN ItemSet(d, ModelKey(items[n][1]), items[n][2]) ELSE d

kegg_properties_to_models(attributes) == RenameItems(attributes, Len(attributes))

(***************************************************************************)
(* The records, sections and allow-lists the projection is applied to.     *)
(***************************************************************************)
K_HGNC == <<"H", "G", "N", "C">>
K_Hgnc == <<"H", "g", "n", "c">>
K_UniProt == <<"U", "n", "i", "P", "r", "o", "t">>
LinkKeys == {K_HGNC, K_Hgnc, K_UniProt}

V_1 == <<"1">>
V_2 == <<"2">>
V_Fits == [i \in 1..(MaxValueLen - 1) |-> "x"]
V_Long == [i \in 1..MaxValueLen |-> "x"]
LinkValues == {V_1, V_2, V_Fits, V_Long}

LinkPairs == {<<k, v>> : k \in LinkKeys, v \in LinkValues}
LinkSections == UNION {[1..n -> LinkPairs] : n \in 0..MaxPairs}

ProjectIdle ==
    /\ columns = {}
    /\ kegg_attributes = <<>>
    /\ models = <<>>
    /\ jpc = "idle"
    /\ jerror = NoError

\* process_protein_info_to_model after parse_description has returned
ProjectInit ==
    /\ lines = <<>>
    /\ keyword = Unbound
    /\ pstatus = "returned"
    /\ perror = NoError
    /\ description \in {EmptyDict} \cup {DictSet(EmptyDict, "DBLINKS", sec) : sec \in LinkSections}
    /\ columns \in SUBSET LinkKeys
    /\ kegg_attributes = <<>>
    /\ models = <<>>
    /\ jpc = "parsed"
    /\ jerror = NoError

GetDescriptionProperties ==
    /\ jpc = "parsed"
    /\ LET r == get_description_properties(description, "DBLINKS", columns)
       IN  IF r.exc = NoError
           THEN /\ kegg_attributes' = r.val
                /\ jpc' = "filtered"
                /\ UNCHANGED jerror
           ELSE /\ jerror' = r.exc
                /\ jpc' = "raised"
                /\ UNCHANGED kegg_attributes
    /\ UNCHANGED <<models, columns>>
    /\ UNCHANGED <<parserVars, managerVars, enrichVars>>

KeggPropertiesToModels ==
    /\ jpc = "filtered"
    /\ models' = kegg_properties_to_models(kegg_attributes)
    /\ jpc' = "done"
    /\ UNCHANGED <<kegg_attributes, columns, jerror>>
    /\ UNCHANGED <<parserVars, managerVars, enrichVars>>

(***************************************************************************)
(* manager.py: Manager.populate = _populate_pathways followed by           *)
(* _populate_pathway_protein.                                              *)
(***************************************************************************)
None == "None"

PATH_PREFIX == <<"p", "a", "t", "h", ":">>

NormalizePathwayIdKeepPrefix(kegg_pathway_id) == kegg_pathway_id

\* get_or_create_pathway: if kegg_pathway_id.startswith('path:'): strip it
NormalizePathwayId(kegg_pathway_id) ==
    IF startswith(kegg_pathway_id, PATH_PREFIX)
    THEN SubSeq(kegg_pathway_id, Len(PATH_PREFIX) + 1, Len(kegg_pathway_id))
    ELSE kegg_pathway_id

StripPathPrefixNever(kegg_pathway_id) == kegg_pathway_id

\* _populate_pathway_protein: if kegg_pathway_id.startswith('path:'): strip it
StripPathPrefix(kegg_pathway_id) ==
    IF startswith(kegg_pathway_id, PATH_PREFIX)
    THEN SubSeq(kegg_pathway_id, Len(PATH_PREFIX) + 1, Len(kegg_pathway_id))
    ELSE kegg_pathway_id

\* position in the store of the pathway with this identifier, 0 for None
get_pathway_by_id(store, pathway_id) ==
    IF \E i \in 1..Len(store) : store[i].identifier = pathway_id
    THEN CHOOSE i \in 1..Len(store) :
             store[i].identifier = pathway_id /\ \A j \in 1..(i - 1) : store[j].identifier # pathway_id
    ELSE 0

\* the session after get_or_create_pathway
get_or_create_pathway(store, kegg_pathway_id, a_species, name, definition) ==
    LET id == NormalizePathwayId(kegg_pathway_id)
    IN  IF get_pathway_by_id(store, id) = 0
        THEN Append(store, [identifier |-> id, name |-> name,
                            definition |-> definition, species |-> a_species])
        ELSE store

\* pandas unique(): the distinct values in order of first appearance
RECURSIVE unique(_)
unique(seq) ==
    IF Len(seq) = 0 THEN <<>>
    ELSE LET front == unique(SubSeq(seq, 1, Len(seq) - 1))
             x == seq[Len(seq)]
         IN  IF \E i \in 1..Len(front) : front[i] = x THEN front ELSE Append(front, x)

(***************************************************************************)
(* The data a population run reads.                                        *)
(***************************************************************************)
W1 == <<"w", "1">>
W2 == <<"w", "2">>
W9 == <<"w", "9">>
P_W1 == PATH_PREFIX \o W1
P_W2 == PATH_PREFIX \o W2
P_W9 == PATH_PREFIX \o W9

PathwayFiles == { <<P_W1, P_W2>>, <<W1, P_W1>>, <<P_W1>>, <<P_W2, W1>> }

HSA_1 == <<"h", "s", "a", ":", "1">>
HSA_2 == <<"h", "s", "a", ":", "2">>
HSA_3 == <<"h", "s", "a", ":", "3">>
ProteinIds == {HSA_1, HSA_2, HSA_3}
PathwayRefs == {P_W1, W1, P_W2, P_W9}
MembershipRows == {<<p, w>> : p \in ProteinIds, w \in PathwayRefs}
MembershipFiles == UNION {[1..n -> MembershipRows] : n \in 0..MaxMembers}

BadRecordSets == { {}, {HSA_1}, {P_W1} }

\* what parse_pathway_lines returns for the record of a pathway
PathwayInfo(kegg_pathway_id) ==
    IF kegg_pathway_id = P_W1 THEN [name |-> "Glycolysis", definition |-> "glucose to pyruvate"]
    ELSE IF kegg_pathway_id = W1 THEN [name |-> "Glycolysis (alias)", definition |-> None]
    ELSE [name |-> "Pentose phosphate pathway - Homo sapiens (human)", definition |-> None]

\* what parse_protein_lines returns for the record of a protein
ProteinInfo(kegg_protein_id) ==
    IF kegg_protein_id = HSA_1 THEN [identifier |-> "2821"]
    ELSE IF kegg_protein_id = HSA_2 THEN [identifier |-> "5214"]
    ELSE [identifier |-> "9563"]

\* parse_pathway_lines / parse_protein_lines on a fetched record
ParseRecord(entity_id, info, bad) ==
    IF entity_id \in bad THEN Fail("ParseError") ELSE Ok(info)

\* the lookup tables of client.py
ENTREZ_ID_TO_HGNC_ID == ("2821" :> "4458") @@ ("5214" :> "8878")
HGNC_ID_TO_SYMBOL == ("4458" :> "GPI")

DictGet(d, k) == IF k \in DOMAIN d THEN d[k] ELSE None

\* the truth value of an optional string: None and '' are false
Truthy(x) == x # None /\ x # ""

\* the Protein built by one iteration of the loop "Loading proteins"
NewProtein(kegg_protein_id, protein_info) ==
    LET entrez_id == protein_info.identifier
        hgnc_id == DictGet(ENTREZ_ID_TO_HGNC_ID, entrez_id)
        hgnc_symbol == IF Truthy(hgnc_id) THEN DictGet(HGNC_ID_TO_SYMBOL, hgnc_id) ELSE None
    IN  [kegg_id |-> kegg_protein_id, entrez_id |-> entrez_id, hgnc_id |-> hgnc_id,
         hgnc_symbol |-> hgnc_symbol, pathways |-> <<>>]

\* the Species _populate_pathways builds from its default arguments
SPECIES == [name |-> "Homo sapiens", taxonomy_id |-> "9606"]

NoSpecies == [name |-> None, taxonomy_id |-> None]

\* the rows of get_organisms_df
ORGANISMS ==
    << [kegg_code |-> "hsa", name |-> "Homo sapiens", common_name |-> "Human"],
       [kegg_code |-> "mmu", name |-> "Mus musculus", common_name |-> "Mouse"] >>

\* the values of the argument organisms, by their Python type
NoOrganisms == [type |-> "NoneType", value |-> <<>>]
StrArg(x) == [type |-> "str", value |-> <<x>>]
ListArg(xs) == [type |-> "list", value |-> xs]
TrueArg == [type |-> "bool", value |-> <<"True">>]

OrganismsArguments ==
    { NoOrganisms, StrArg(""), ListArg(<<>>),
      StrArg("hsa"), StrArg("Homo sapiens"), StrArg("Human"), StrArg("zzz"),
      ListArg(<<"hsa", "mmu">>), TrueArg }

\* populate: if organisms
OrganismsGiven(o) ==
    CASE o.type = "str" -> o.value[1] # ""
      [] o.type = "list" -> Len(o.value) > 0
      [] o.type = "bool" -> o.value[1] = "True"
      [] OTHER -> FALSE

\* _populate_pathways_species: a str or a list goes through
\* _populate_pathways_specie, anything else populates the pathways of all
PerSpecie(o) == o.type \in {"str", "list"}

\* the first row of get_organisms_df whose column holds x, 0 when none does
OrganismRow(column, x) ==
    IF \E i \in 1..Len(ORGANISMS) : ORGANISMS[i][column] = x
    THEN CHOOSE i \in 1..Len(ORGANISMS) :
             ORGANISMS[i][column] = x /\ \A j \in 1..(i - 1) : ORGANISMS[j][column] # x
    ELSE 0

\* _populate_pathways_specie: kegg_id and organism_name of specie_id
LookupOrganism(specie_id) ==
    IF OrganismRow("kegg_code", specie_id) # 0
    THEN Ok([kegg_id |-> specie_id,
             organism_name |-> ORGANISMS[OrganismRow("kegg_code", specie_id)].name])
    ELSE IF OrganismRow("name", specie_id) # 0
    THEN Ok([kegg_id |-> ORGANISMS[OrganismRow("name", specie_id)].kegg_code,
             organism_name |-> specie_id])
    ELSE IF OrganismRow("common_name", specie_id) # 0
    THEN Ok([kegg_id |-> ORGANISMS[OrganismRow("common_name", specie_id)].kegg_code,
             organism_name |-> ORGANISMS[OrganismRow("common_name", specie_id)].name])
    ELSE [exc |-> [type |-> "Warning", args |-> <<specie_id>>], val |-> <<>>]

NoGraph == [status |-> "none", pathway |-> <<>>, nodes |-> {}, edges |-> {}]
EmptyStore == [pathways |-> <<>>, proteins |-> <<>>]

ManagerIdle ==
    /\ organisms = NoOrganisms
    /\ pathways_lines = <<>>
    /\ entity_pathway_df = <<>>
    /\ bad_records = {}
    /\ mpc = "idle"
    /\ mi = 0
    /\ todo = <<>>
    /\ species = NoSpecies
    /\ session_pathways = <<>>
    /\ session_proteins = <<>>
    /\ proteins = <<>>
    /\ kegg_protein_id_to_protein = EmptyDict
    /\ committed = EmptyStore
    /\ merror = NoError
    /\ graph = NoGraph

\* Manager.populate is called on an empty database; the loaders return the
\* tables pathways_lines and entity_pathway_df for every URL they are given
ManagerStart ==
    /\ mpc = "populate"
    /\ mi = 1
    /\ todo = <<>>
    /\ species = NoSpecies
    /\ session_pathways = <<>>
    /\ session_proteins = <<>>
    /\ proteins = <<>>
    /\ kegg_protein_id_to_protein = EmptyDict
    /\ committed = EmptyStore
    /\ merror = NoError
    /\ graph = NoGraph

ManagerInit ==
    /\ organisms \in OrganismsArguments
    /\ pathways_lines \in PathwayFiles
    /\ entity_pathway_df \in MembershipFiles
    /\ bad_records \in BadRecordSets
    /\ ManagerStart

inputVars == <<organisms, pathways_lines, entity_pathway_df, bad_records>>

MRaise(exc) ==
    /\ mpc' = "raised"
    /\ merror' = exc

\* Manager.populate and the dispatch of _populate_pathways_species
Populate ==
    /\ mpc = "populate"
    /\ IF OrganismsGiven(organisms)
       THEN /\ mpc' = "species"
            /\ todo' = IF PerSpecie(organisms) THEN organisms.value
                       ELSE [i \in 1..Len(ORGANISMS) |-> ORGANISMS[i].kegg_code]
            /\ UNCHANGED species
       ELSE /\ mpc' = "pathways"
            /\ species' = SPECIES
            /\ UNCHANGED todo
    /\ mi' = 1
    /\ UNCHANGED <<inputVars, session_pathways, session_proteins, proteins,
                   kegg_protein_id_to_protein, committed, merror, graph>>
    /\ UNCHANGED <<parserVars, projectVars, enrichVars>>

\* _populate_pathways_species, one iteration over the organisms (or its end),
\* up to the Species object _populate_pathways builds
NextOrganism ==
    /\ mpc = "species"
    /\ IF todo = <<>>
       THEN /\ mpc' = "done"
            /\ UNCHANGED <<todo, species, mi, merror>>
       ELSE IF PerSpecie(organisms)
       THEN LET found == LookupOrganism(Head(todo))
            IN  IF found.exc # NoError
                THEN /\ MRaise(found.exc)
                     /\ UNCHANGED <<todo, species, mi>>
                ELSE /\ mpc' = "pathways"
                     /\ mi' = 1
                     /\ species' = [name |-> found.val.organism_name, taxonomy_id |-> None]
                     /\ todo' = Tail(todo)
                     /\ UNCHANGED merror
       ELSE /\ mpc' = "pathways"
            /\ mi' = 1
            /\ species' = SPECIES
            /\ todo' = Tail(todo)
            /\ UNCHANGED merror
    /\ UNCHANGED <<inputVars, session_pathways, session_proteins, proteins,
                   kegg_protein_id_to_protein, committed, graph>>
    /\ UNCHANGED <<parserVars, projectVars, enrichVars>>

\* _populate_pathways, one iteration of "for kegg_pathway_id, pathway_lines in ..."
PopulatePathway ==
    /\ mpc = "pathways"
    /\ mi <= Len(pathways_lines)
    /\ LET kegg_pathway_id == pathways_lines[mi]
           pathway == ParseRecord(kegg_pathway_id, PathwayInfo(kegg_pathway_id), bad_records)
       IN  IF pathway.exc # NoError
           THEN /\ MRaise(pathway.exc)
                /\ UNCHANGED <<mi, session_pathways>>
           ELSE /\ session_pathways' =
                       get_or_create_pathway(session_pathways, kegg_pathway_id, species,
                                             pathway.val.name, pathway.val.definition)
                /\ mi' = mi + 1
                /\ UNCHANGED <<mpc, merror>>
    /\ UNCHANGED <<inputVars, todo, species, session_proteins, proteins,
                   kegg_protein_id_to_protein, committed, graph>>
    /\ UNCHANGED <<parserVars, projectVars, enrichVars>>

\* _populate_pathways, self.session.commit(), and what populate does next
CommitPathways ==
    /\ mpc = "pathways"
    /\ mi > Len(pathways_lines)
    /\ committed' = [pathways |-> session_pathways, proteins |-> session_proteins]
    /\ mpc' = IF OrganismsGiven(organisms) /\ ~PerSpecie(organisms) THEN "species" ELSE "fetch"
    /\ UNCHANGED <<inputVars, mi, todo, species, session_pathways, session_proteins, proteins,
                   kegg_protein_id_to_protein, merror, graph>>
    /\ UNCHANGED <<parserVars, projectVars, enrichVars>>

KeggProteinIds == unique([i \in 1..Len(entity_pathway_df) |-> entity_pathway_df[i][1]])

\* _populate_pathway_protein up to get_entities_lines; kegg_protein_ids[0] is logged
FetchProteins ==
    /\ mpc = "fetch"
    /\ IF Len(KeggProteinIds) = 0
       THEN /\ MRaise(Raise("IndexError"))
            /\ UNCHANGED mi
       ELSE /\ mpc' = "parse"
            /\ mi' = 1
            /\ UNCHANGED merror
    /\ UNCHANGED <<inputVars, todo, species, session_pathways, session_proteins, proteins,
                   kegg_protein_id_to_protein, committed, graph>>
    /\ UNCHANGED <<parserVars, projectVars, enrichVars>>

\* one element of the list "proteins": (entity_id, parse_protein_lines(entity_lines))
ParseProtein ==
    /\ mpc = "parse"
    /\ LET entity_id == KeggProteinIds[mi]
           info == ParseRecord(entity_id, ProteinInfo(entity_id), bad_records)
       IN  IF info.exc # NoError
           THEN /\ MRaise(info.exc)
                /\ UNCHANGED <<mi, proteins>>
           ELSE /\ proteins' = Append(proteins, <<entity_id, info.val>>)
                /\ IF mi = Len(KeggProteinIds)
                   THEN mpc' = "load" /\ mi' = 1
                   ELSE mpc' = mpc /\ mi' = mi + 1
                /\ UNCHANGED merror
    /\ UNCHANGED <<inputVars, todo, species, session_pathways, session_proteins,
                   kegg_protein_id_to_protein, committed, graph>>
    /\ UNCHANGED <<parserVars, projectVars, enrichVars>>

\* one iteration of "for kegg_protein_id, protein_info in proteins"
LoadProtein ==
    /\ mpc = "load"
    /\ LET kegg_protein_id == proteins[mi][1]
           protein_info == proteins[mi][2]
       IN  /\ session_proteins' =
                   Append(session_proteins, NewProtein(kegg_protein_id, protein_info))
           /\ kegg_protein_id_to_protein' =
                   DictSet(kegg_protein_id_to_protein, kegg_protein_id,
                           Len(session_proteins) + 1)
    /\ IF mi = Len(proteins)
       THEN mpc' = "link" /\ mi' = 1
       ELSE mpc' = mpc /\ mi' = mi + 1
    /\ UNCHANGED <<inputVars, todo, species, session_pathways, proteins, committed,
                   merror, graph>>
    /\ UNCHANGED <<parserVars, projectVars, enrichVars>>

\* one iteration of "for kegg_protein_id, kegg_pathway_id in entity_pathway_df.values"
LinkMembership ==
    /\ mpc = "link"
    /\ mi <= Len(entity_pathway_df)
    /\ LET kegg_protein_id == entity_pathway_df[mi][1]
           kegg_pathway_id == StripPathPrefix(entity_pathway_df[mi][2])
           pathway == get_pathway_by_id(session_pathways, kegg_pathway_id)
           protein == kegg_protein_id_to_protein[kegg_protein_id]
       IN  IF pathway = 0
           THEN UNCHANGED session_proteins
           ELSE session_proteins' =
                    [session_proteins EXCEPT ![protein].pathways =
                         Append(@, session_pathways[pathway].identifier)]
    /\ mi' = mi + 1
    /\ UNCHANGED <<inputVars, mpc, todo, species, session_pathways, proteins,
                   kegg_protein_id_to_protein, committed, merror, graph>>
    /\ UNCHANGED <<parserVars, projectVars, enrichVars>>

\* _populate_pathway_protein, self.session.commit() and return: the locals
\* proteins and kegg_protein_id_to_protein are gone
CommitProteins ==
    /\ mpc = "link"
    /\ mi > Len(entity_pathway_df)
    /\ committed' = [pathways |-> session_pathways, proteins |-> session_proteins]
    /\ mpc' = IF OrganismsGiven(organisms) THEN "species" ELSE "done"
    /\ proteins' = <<>>
    /\ kegg_protein_id_to_protein' = EmptyDict
    /\ UNCHANGED <<inputVars, mi, todo, species, session_pathways, session_proteins,
                   merror, graph>>
    /\ UNCHANGED <<parserVars, projectVars, enrichVars>>

(***************************************************************************)
(* The relation index read from the committed tables, and the pathway      *)
(* subgraph built from it.  A node is keyed by (function, namespace,       *)
(* name); the name of a protein node is its external (HGNC) symbol.        *)
(***************************************************************************)
PART_OF == "partOf"

\* the proteins whose pathways hold the pathway with this identifier
Members(store, identifier) ==
    { k \in DOMAIN store.proteins :
          \E i \in 1..Len(store.proteins[k].pathways) :
              store.proteins[k].pathways[i] = identifier }

PathwayNode(pathway) ==
    [function |-> "bioprocess", namespace |-> "KEGG", name |-> pathway.name]

ProteinNode(protein) ==
    [function |-> "protein", namespace |-> "HGNC", name |-> protein.hgnc_symbol]

get_pathway_graph(store, pathway_id) ==
    LET identifier == NormalizePathwayId(pathway_id)
        at == get_pathway_by_id(store.pathways, identifier)
    IN  IF at = 0
        THEN [status |-> "UnknownPathwayError", pathway |-> identifier,
              nodes |-> {}, edges |-> {}]
        ELSE LET pathway_node == PathwayNode(store.pathways[at])
                 members == Members(store, identifier)
             IN  [status |-> "ok", pathway |-> identifier,
                  nodes |-> {pathway_node} \cup {ProteinNode(store.proteins[m]) : m \in members},
                  edges |-> {<<ProteinNode(store.proteins[m]), PART_OF, pathway_node>> :
                                 m \in members}]

GetPathwayGraph(pathway_id) ==
    /\ mpc = "done"
    /\ graph' = get_pathway_graph(committed, pathway_id)
    /\ UNCHANGED <<inputVars, mpc, mi, todo, species, session_pathways, session_proteins,
                   proteins, kegg_protein_id_to_protein, committed, merror>>
    /\ UNCHANGED <<parserVars, projectVars, enrichVars>>

(***************************************************************************)
(* The enrichment of a caller-supplied graph from the relation index.  The *)
(* caller's graph adds a node only if it is absent (by key) and adds an    *)
(* edge whenever it is asked to, so an edge is kept with its multiplicity. *)
(***************************************************************************)
MaxCalls == 3

NoEdges == [e \in {} |-> 0]
EmptyGraph == [nodes |-> {}, edges |-> NoEdges]

EdgeCount(g, e) == IF e \in DOMAIN g.edges THEN g.edges[e] ELSE 0

\* add the nodes ns if absent, then add one edge for every element of es
AddToGraph(g, ns, es) ==
    [nodes |-> g.nodes \cup ns \cup {e[1] : e \in es} \cup {e[3] : e \in es},
     edges |-> [e \in (DOMAIN g.edges) \cup es |->
                    EdgeCount(g, e) + (IF e \in es THEN 1 ELSE 0)]]

\* the known proteins a protein or gene node resolves to, by external symbol
ResolveProteins(store, node) ==
    { k \in DOMAIN store.proteins :
          /\ node.function \in {"protein", "gene"}
          /\ node.namespace = "HGNC"
          /\ store.proteins[k].hgnc_symbol # None
          /\ store.proteins[k].hgnc_symbol = node.name }

\* the known pathways a pathway node resolves to, by name
ResolvePathways(store, node) ==
    { i \in 1..Len(store.pathways) :
          /\ node.function = "bioprocess"
          /\ node.namespace = "KEGG"
          /\ store.pathways[i].name = node.name }

\* the pathway memberships of the proteins a node resolves to
PathwaysOfNode(store, node) ==
    { i \in 1..Len(store.pathways) :
          \E k \in ResolveProteins(store, node) :
              k \in Members(store, store.pathways[i].identifier) }

AlreadyConnectedNever(g, e) == FALSE

\* is the pair (matched node, pathway) already connected by a part-of edge
AlreadyConnected(g, e) == e \in DOMAIN g.edges

enrich_pathway(store, g) ==
    LET found == UNION { { <<n, PART_OF, PathwayNode(store.pathways[i])>> :
                               i \in PathwaysOfNode(store, n) } : n \in g.nodes }
    IN  AddToGraph(g, {e[3] : e \in found}, {e \in found : ~AlreadyConnected(g, e)})


\* the members of the known pathways a pathway node resolves to
MembersOfNode(store, node) ==
    UNION { Members(store, store.pathways[i].identifier) : i \in ResolvePathways(store, node) }

MemberPresentNever(g, node) == FALSE

\* is the member already present as a node, matched by its external-symbol key
MemberPresent(g, node) == node \in g.nodes

enrich_protein(store, g) ==
    LET found == UNION { { <<ProteinNode(store.proteins[m]), PART_OF, w>> :
                               m \in MembersOfNode(store, w) } : w \in g.nodes }
    IN  AddToGraph(g, {}, {e \in found : ~MemberPresent(g, e[1])})

(***************************************************************************)
(* The graphs a caller supplies, after the graph of the enrichment tests:  *)
(* two proteins, a gene and a pathway joined by three edges.  Of their     *)
(* symbols HGNC_ID_TO_SYMBOL resolves GPI only.  A gene node for GPI, a    *)
(* second pathway node and the part-of edge to it give graphs that are     *)
(* already partly enriched.                                                *)
(***************************************************************************)
PROTEIN_A == [function |-> "protein", namespace |-> "HGNC", name |-> "GPI"]
PROTEIN_B == [function |-> "protein", namespace |-> "HGNC", name |-> "PFKP"]
GENE_C == [function |-> "gene", namespace |-> "HGNC", name |-> "PGLS"]
PATHWAY_A ==
    [function |-> "bioprocess", namespace |-> "KEGG",
     name |-> "Pentose phosphate pathway - Homo sapiens (human)"]

\* nodes of graphs that are already partly enriched
GENE_A == [function |-> "gene", namespace |-> "HGNC", name |-> "GPI"]
PATHWAY_B == [function |-> "bioprocess", namespace |-> "KEGG", name |-> "Glycolysis"]

CallerEdges ==
    { <<PROTEIN_A, "increases", PROTEIN_B>>, <<PROTEIN_B, "decreases", GENE_C>>,
      <<GENE_C, PART_OF, PATHWAY_A>>, <<PROTEIN_A, PART_OF, PATHWAY_B>> }

CallerGraphs ==
    { AddToGraph(EmptyGraph, ns, es) : ns \in SUBSET {PROTEIN_A, GENE_A, PATHWAY_B}, es \in SUBSET CallerEdges }

\* the files the relation index of an enrichment is built from
IndexPathwayFiles == { <<P_W1, P_W2>>, <<P_W2>> }

IndexMembershipFiles ==
    { <<<<HSA_1, P_W1>>>>,
      <<<<HSA_1, P_W1>>, <<HSA_1, W2>>>>,
      <<<<HSA_1, P_W2>>, <<HSA_2, P_W2>>>>,
      <<<<HSA_2, P_W1>>, <<HSA_3, P_W1>>>>,
      <<<<HSA_1, P_W1>>, <<HSA_1, W1>>, <<HSA_2, P_W2>>>>,
      <<<<HSA_1, P_W1>>, <<HSA_2, P_W1>>, <<HSA_3, P_W9>>>> }

EnrichIdle ==
    /\ caller_graph = EmptyGraph
    /\ previous_graph = EmptyGraph
    /\ enrich_calls = <<>>

\* the caller hands its graph to the manager of a populated database
SupplyGraph(g) ==
    /\ mpc = "done"
    /\ enrich_calls = <<>>
    /\ caller_graph' = g
    /\ enrich_calls' = <<"graph">>
    /\ UNCHANGED previous_graph
    /\ UNCHANGED <<parserVars, projectVars, managerVars>>

EnrichPathway ==
    /\ Len(enrich_calls) \in 1..MaxCalls
    /\ previous_graph' = caller_graph
    /\ caller_graph' = enrich_pathway(committed, caller_graph)
    /\ enrich_calls' = Append(enrich_calls, "enrich_pathway")
    /\ UNCHANGED <<parserVars, projectVars, managerVars>>

EnrichProtein ==
    /\ Len(enrich_calls) \in 1..MaxCalls
    /\ previous_graph' = caller_graph
    /\ caller_graph' = enrich_protein(committed, caller_graph)
    /\ enrich_calls' = Append(enrich_calls, "enrich_protein")
    /\ UNCHANGED <<parserVars, projectVars, managerVars>>

(***************************************************************************)
(* Vocabulary of the properties of the parser, stated on the input lines.  *)
(***************************************************************************)
Indented(line) == Len(line) > 0 /\ line[1] = " "

\* the characters of a line before its first space
WordBeforeSpace(line) ==
    IF \E i \in 1..Len(line) : line[i] = " "
    THEN SubSeq(line, 1, (CHOOSE i \in 1..Len(line) :
                              line[i] = " " /\ \A j \in 1..(i - 1) : line[j] # " ") - 1)
    ELSE line

\* index of the non-indented line that opens the section line i belongs to, or 0
HeaderIndex(ls, i) ==
    IF \E j \in 1..i : ~Indented(ls[j])
    THEN CHOOSE j \in 1..i : ~Indented(ls[j]) /\ \A k \in (j + 1)..i : Indented(ls[k])
    ELSE 0

InSection(ls, i, kw) ==
    /\ HeaderIndex(ls, i) # 0
    /\ WordBeforeSpace(ls[HeaderIndex(ls, i)]) = kw

\* the lines among the first n of ls that belong to section kw, in input order
RECURSIVE SectionLines(_, _, _)
SectionLines(ls, kw, n) ==
    IF n = 0 THEN <<>>
    ELSE SectionLines(ls, kw, n - 1) \o (IF InSection(ls, n, kw) THEN <<ls[n]>> ELSE <<>>)

\* the text of a line after its keyword (a continuation line has no keyword)
TextAfterKeyword(line) ==
    IF Indented(line) THEN line
    ELSE SubSeq(line, Len(WordBeforeSpace(line)) + 1, Len(line))

HasColon(text) == \E i \in 1..Len(text) : text[i] = ":"

ListOf(d, k) == IF k \in DOMAIN d THEN d[k] ELSE <<>>

PathwayTuples(ls) == [i \in 1..Len(ls) |-> parse_pathway_line(ls[i]).val]
LinkTuples(ls) == [i \in 1..Len(ls) |-> parse_link_line(ls[i]).val]

\* C1: when parse_description returns, the PATHWAY list holds exactly one
\* tuple per line of the PATHWAY section, in input order, the DBLINKS list
\* likewise, and lines of any other section contribute to neither list.
C1_SectionLists ==
    pstatus = "returned" =>
        /\ ListOf(description, "PATHWAY")
               = PathwayTuples(SectionLines(lines, KW_PATHWAY, Len(lines)))
        /\ ListOf(description, "DBLINKS")
               = LinkTuples(SectionLines(lines, KW_DBLINKS, Len(lines)))

C1_Witness ==
    /\ pstatus = "returned"
    /\ Len(lines) >= 3
    /\ Len(ListOf(description, "PATHWAY")) = 2
    /\ \E i \in 1..Len(lines) :
           /\ Indented(lines[i])
           /\ InSection(lines, i, KW_PATHWAY)
    /\ \E i \in 1..Len(lines) :
           /\ ~InSection(lines, i, KW_PATHWAY)
           /\ ~InSection(lines, i, KW_DBLINKS)

\* a DBLINKS-section line whose text after the keyword has no colon
ColonlessLink(ls, i) ==
    /\ InSection(ls, i, KW_DBLINKS)
    /\ ~HasColon(TextAfterKeyword(ls[i]))

\* C2 (as stated): a DBLINKS-section line without a colon fails with a
\* ParseError that names the offending line, and no record is returned.
C2_ParseErrorNamesLine ==
    \A i \in 1..Len(lines) :
        ColonlessLink(lines, i) =>
            /\ pstatus = "raised"
            /\ perror.type = "ParseError"
            /\ \E k \in 1..Len(perror.args) : perror.args[k] = lines[i]

\* C3 (as stated): if no DBLINKS-section line lacks a colon, parse_description
\* never raises.
C3_NeverRaisesOtherwise ==
    (\A i \in 1..Len(lines) : ~ColonlessLink(lines, i)) => pstatus # "raised"

\* C4 (as stated): a DBLINKS-section line with one or more colons is not
\* rejected, and the tuple it appends is (text before the first colon, text
\* after the first colon), both trimmed.
C4_SplitOnFirstColon ==
    LET n == Len(lines)
    IN  (n > 0 /\ InSection(lines, n, KW_DBLINKS) /\ HasColon(TextAfterKeyword(lines[n]))) =>
            LET text == TextAfterKeyword(lines[n])
                c == CHOOSE i \in 1..Len(text) : text[i] = ":" /\ \A j \in 1..(i - 1) : text[j] # ":"
                links == ListOf(description, "DBLINKS")
            IN  /\ pstatus # "raised"
                /\ Len(links) > 0
                /\ links[Len(links)] = << strip(SubSeq(text, 1, c - 1), WHITESPACE),
                                          strip(SubSeq(text, c + 1, Len(text)), WHITESPACE) >>

IsNameLine(line) == ~Indented(line) /\ WordBeforeSpace(line) = KW_NAME

RemoveTrailingSemicolon(tok) ==
    IF Len(tok) > 0 /\ tok[Len(tok)] = ";" THEN SubSeq(tok, 1, Len(tok) - 1) ELSE tok

\* C5 (as stated): after a block with a NAME line is parsed, ENTRY_NAME is the
\* first token after the NAME keyword without its trailing semicolon; later
\* tokens and continuation lines of the NAME section do not change it.
C5_FirstNameRetained ==
    \A j \in 1..Len(lines) :
        ( /\ pstatus = "returned"
          /\ IsNameLine(lines[j])
          /\ \A k \in 1..Len(lines) : IsNameLine(lines[k]) => k = j
          /\ Len(split_ws(TextAfterKeyword(lines[j]))) > 0 ) =>
            /\ "ENTRY_NAME" \in DOMAIN description
            /\ description["ENTRY_NAME"]
                   = RemoveTrailingSemicolon(split_ws(TextAfterKeyword(lines[j]))[1])

vars == <<parserVars, projectVars, managerVars, enrichVars>>

SpecParseInit == ParserInit /\ ProjectIdle /\ ManagerIdle /\ EnrichIdle

SpecParseNext ==
    \/ \E line \in LinePool : ParseDescriptionLine(line)
    \/ ParseDescriptionReturn

SpecParse == SpecParseInit /\ [][SpecParseNext]_vars

(***************************************************************************)
(* Properties of the projection.                                           *)
(***************************************************************************)
Section == description["DBLINKS"]

Entries(d) == {d[i] : i \in 1..Len(d)}

\* every projected entry comes from an allowed pair with a value under the limit
ProjectedOnlyFromAllowedShort ==
    \A e \in Entries(models) :
        \E i \in 1..Len(Section) :
            /\ Section[i][1] \in columns
            /\ Len(Section[i][2]) < 255
            /\ e = <<ModelKey(Section[i][1]), Section[i][2]>>

\* no entry for a key outside the allow-list, no value of 255 or more characters
NoForbiddenEntry ==
    \A e \in Entries(models) :
        /\ Len(e[2]) < 255
        /\ \E k \in columns : e[1] = ModelKey(k)

AllowedShort(i) == Section[i][1] \in columns /\ Len(Section[i][2]) < 255

\* C6 (as stated): the projection holds an entry only for an allowed pair
\* with a value shorter than 255, and every allowed pair with a
\* non-duplicated key and a value shorter than 255 is projected.
C6_ProjectionAsStated ==
    jpc = "done" =>
        /\ ProjectedOnlyFromAllowedShort
        /\ NoForbiddenEntry
        /\ \A i \in 1..Len(Section) :
               ( /\ AllowedShort(i)
                 /\ \A j \in 1..Len(Section) : j # i => Section[j][1] # Section[i][1] ) =>
                   <<ModelKey(Section[i][1]), Section[i][2]>> \in Entries(models)

\* C6 (amended): as above, but a pair is certain to be projected only if no
\* other allowed pair of the section has a key with the same lowercase form.
C6_Projection ==
    jpc = "done" =>
        /\ ProjectedOnlyFromAllowedShort
        /\ NoForbiddenEntry
        /\ \A i \in 1..Len(Section) :
               ( /\ AllowedShort(i)
                 /\ \A j \in 1..Len(Section) :
                        (j # i /\ Section[j][1] \in columns) =>
                            lower(Section[j][1]) # lower(Section[i][1]) ) =>
                   <<ModelKey(Section[i][1]), Section[i][2]>> \in Entries(models)

C6_Witness ==
    /\ jpc = "done"
    /\ Len(Section) = 2
    /\ AllowedShort(1)
    /\ Section[2][1] \in columns
    /\ Len(Section[2][2]) = 255
    /\ lower(Section[2][1]) # lower(Section[1][1])
    /\ Entries(models) = {<<ModelKey(Section[1][1]), Section[1][2]>>}

\* the pairs of the section with key k, and those of them under the limit
PairsWithKey(k) == {i \in 1..Len(Section) : Section[i][1] = k}
ShortPairsWithKey(k) == {i \in PairsWithKey(k) : Len(Section[i][2]) < 255}

Last(S) == CHOOSE i \in S : \A j \in S : j <= i

\* C13 (as stated): when the section holds several pairs with the same
\* allowed key, the projection has exactly one entry for that key, and its
\* value is that of the last pair with that key whose value is shorter than
\* 255, also when a later pair with that key is dropped for its length.
C13_LastShortValueWins ==
    jpc = "done" =>
        \A k \in columns :
            (Cardinality(PairsWithKey(k)) >= 2 /\ ShortPairsWithKey(k) # {}) =>
                /\ Cardinality({e \in Entries(models) : e[1] = ModelKey(k)}) = 1
                /\ <<ModelKey(k), Section[Last(ShortPairsWithKey(k))][2]>> \in Entries(models)

SpecProjectInit == ProjectInit /\ ManagerIdle /\ EnrichIdle

SpecProjectNext ==
    \/ GetDescriptionProperties
    \/ KeggPropertiesToModels

SpecProject == SpecProjectInit /\ [][SpecProjectNext]_vars

(***************************************************************************)
(* Properties of the population run, stated on the files it reads.         *)
(***************************************************************************)
Range(seq) == {seq[i] : i \in 1..Len(seq)}

\* a pathway id without its optional 'path:' prefix
Canon(id) ==
    IF Len(id) >= 5 /\ SubSeq(id, 1, 5) = <<"p", "a", "t", "h", ":">>
    THEN SubSeq(id, 6, Len(id))
    ELSE id

KnownPathways == {Canon(w) : w \in Range(pathways_lines)}

\* the known pathways paired with protein p in the first n membership rows
PairedKnown(p, n) ==
    { Canon(entity_pathway_df[i][2]) : i \in {j \in 1..n : entity_pathway_df[j][1] = p} }
        \cap KnownPathways

FileProteins == {entity_pathway_df[i][1] : i \in 1..Len(entity_pathway_df)}

\* the runs of populate that build the memberships of every organism they
\* are given: the default run, and organisms given as a str or a list
BuildsMemberships == ~OrganismsGiven(organisms) \/ PerSpecie(organisms)

\* the runs of populate that call _populate_pathway_protein exactly once
BuildsOnce == ~OrganismsGiven(organisms) \/ organisms.type = "str"

KeggIds(ps) == {ps[i].kegg_id : i \in 1..Len(ps)}

\* C7: a membership row whose pathway is unknown creates no link and does not
\* stop the build; every row with a known pathway is linked, so after the run
\* the pathways of a protein are exactly the known pathways paired with it.
C7_UnknownPathwaySkipped ==
    /\ \A i \in 1..Len(committed.proteins) :
           Range(committed.proteins[i].pathways)
               = PairedKnown(committed.proteins[i].kegg_id, Len(entity_pathway_df))
    /\ (mpc = "done" /\ BuildsMemberships) => KeggIds(committed.proteins) = FileProteins
    /\ mpc = "link" =>
           \A p \in FileProteins :
               Range(session_proteins[kegg_protein_id_to_protein[p]].pathways)
                   = PairedKnown(p, mi - 1)
    /\ mpc = "raised" => kegg_protein_id_to_protein = EmptyDict

C7_Witness ==
    /\ mpc = "done"
    /\ Len(entity_pathway_df) = 2
    /\ Canon(entity_pathway_df[1][2]) \notin KnownPathways
    /\ Canon(entity_pathway_df[2][2]) \in KnownPathways
    /\ entity_pathway_df[1][1] = entity_pathway_df[2][1]
    /\ Len(committed.proteins) = 1
    /\ committed.proteins[1].kegg_id = entity_pathway_df[2][1]
    /\ committed.proteins[1].pathways = <<Canon(entity_pathway_df[2][2])>>

Count(seq, x) == Cardinality({i \in 1..Len(seq) : seq[i] = x})

RECURSIVE SumOver(_, _, _)
SumOver(store, ks, w) ==
    IF ks = {} THEN 0
    ELSE LET k == CHOOSE x \in ks : TRUE
         IN  Count(store.proteins[k].pathways, w) + SumOver(store, ks \ {k}, w)

\* len(pathway.proteins): the links between the pathway and proteins
NumberOfProteins(store, w) == SumOver(store, DOMAIN store.proteins, w)

\* C8 (as stated): membership pairs are deduplicated, so the number of
\* proteins of a pathway is the number of distinct protein ids paired with it.
C8_PairsDeduplicated ==
    (mpc = "done" /\ BuildsOnce) =>
        \A w \in KnownPathways :
            NumberOfProteins(committed, w)
                = Cardinality({p \in FileProteins :
                                   \E i \in 1..Len(entity_pathway_df) :
                                       /\ entity_pathway_df[i][1] = p
                                       /\ Canon(entity_pathway_df[i][2]) = w})

\* C9 (as stated): a record that fails to parse does not fail the run, and
\* the protein of every other record is stored and committed.
C9_ParseFailureIsolated ==
    (mpc \in {"done", "raised"} /\ BuildsMemberships
        /\ merror.type \notin {"Warning", "IndexError"}) =>
        /\ merror.type # "ParseError"
        /\ \A p \in FileProteins \ bad_records : p \in KeggIds(committed.proteins)

SpecPopulateInit == ParserInit /\ ProjectIdle /\ ManagerInit /\ EnrichIdle

SpecPopulateNext ==
    \/ Populate
    \/ NextOrganism
    \/ PopulatePathway
    \/ CommitPathways
    \/ FetchProteins
    \/ ParseProtein
    \/ LoadProtein
    \/ LinkMembership
    \/ CommitProteins
    \/ \E pathway_id \in PathwayRefs : GetPathwayGraph(pathway_id)

SpecPopulate == SpecPopulateInit /\ [][SpecPopulateNext]_vars

(***************************************************************************)
(* Properties of get_or_create_pathway, stated on the identifiers it has   *)
(* been called with: _populate_pathways calls it once for every line of    *)
(* pathways_lines, in order.                                               *)
(***************************************************************************)
PathwayIdPool == {P_W1, W1, P_W2, W2}

PathwayCallSequences == UNION {[1..n -> PathwayIdPool] : n \in 0..MaxPathways}

\* the number of get_or_create_pathway calls that have returned
CallsMade == IF mpc = "pathways" THEN mi - 1 ELSE Len(pathways_lines)

\* the first call whose identifier has the canonical form x
FirstCall(x) ==
    CHOOSE j \in 1..CallsMade :
        /\ Canon(pathways_lines[j]) = x
        /\ \A k \in 1..(j - 1) : Canon(pathways_lines[k]) # x

\* the pathways of the session stored under the identifier x
StoredUnder(x) == {i \in 1..Len(session_pathways) : session_pathways[i].identifier = x}

\* C14: after any sequence of get_or_create_pathway calls there is exactly one
\* Pathway per canonical identifier referenced and none besides: 'path:X' and
\* 'X' resolve to the one pathway stored under 'X', which has the name, the
\* definition and the species of the first call that referenced it, so a
\* repeated call neither creates another nor changes it, and none is deleted.
C14_OnePathwayPerIdentifier ==
    mpc \in {"pathways", "fetch"} =>
        /\ \A j \in 1..CallsMade :
               LET x == Canon(pathways_lines[j])
                   first == pathways_lines[FirstCall(x)]
               IN  /\ Cardinality(StoredUnder(x)) = 1
                   /\ StoredUnder(pathways_lines[j]) \subseteq StoredUnder(x)
                   /\ \A i \in StoredUnder(x) :
                          /\ session_pathways[i].name = PathwayInfo(first).name
                          /\ session_pathways[i].definition = PathwayInfo(first).definition
                          /\ session_pathways[i].species = SPECIES
        /\ \A i \in 1..Len(session_pathways) :
               \E j \in 1..CallsMade : session_pathways[i].identifier = Canon(pathways_lines[j])
        /\ mpc = "fetch" => committed.pathways = session_pathways

\* 'path:w1' created the pathway, 'w1' found it and left its name alone
C14_Witness ==
    /\ mpc = "pathways"
    /\ mi = 4
    /\ pathways_lines[1] = P_W1
    /\ pathways_lines[2] = W1
    /\ pathways_lines[3] # P_W1 /\ Canon(pathways_lines[3]) # W1
    /\ Len(session_pathways) = 2
    /\ session_pathways[1].identifier = W1
    /\ session_pathways[1].name = PathwayInfo(P_W1).name
    /\ PathwayInfo(W1).name # PathwayInfo(P_W1).name

\* _populate_pathways is about to run on a pathway table
SpecPathwaysInit ==
    /\ ParserInit /\ ProjectIdle /\ EnrichIdle
    /\ pathways_lines \in PathwayCallSequences
    /\ entity_pathway_df = <<>>
    /\ bad_records = {}
    /\ organisms = NoOrganisms
    /\ ManagerStart

SpecPathwaysNext ==
    \/ Populate
    \/ PopulatePathway
    \/ CommitPathways

SpecPathways == SpecPathwaysInit /\ [][SpecPathwaysNext]_vars

(***************************************************************************)
(* Properties of the enrichment, stated on the caller's graph before and   *)
(* after a call.                                                           *)
(***************************************************************************)
LastCall == enrich_calls[Len(enrich_calls)]

\* C11: enrich_pathway is idempotent: applied to the result of enrich_pathway
\* it adds no node and no edge, so the node set and the edges are the same
\* after two applications as after one.
C11_EnrichPathwayIdempotent ==
    ( /\ Len(enrich_calls) >= 3
      /\ enrich_calls[Len(enrich_calls)] = "enrich_pathway"
      /\ enrich_calls[Len(enrich_calls) - 1] = "enrich_pathway" ) =>
        /\ caller_graph.nodes = previous_graph.nodes
        /\ caller_graph.edges = previous_graph.edges

\* the first application added a pathway node and an edge, the second nothing
C11_Witness ==
    /\ enrich_calls = <<"graph", "enrich_pathway", "enrich_pathway">>
    /\ caller_graph = previous_graph
    /\ \E e \in DOMAIN caller_graph.edges :
           /\ e[2] = PART_OF
           /\ e[1] = GENE_A
           /\ e[3] = PATHWAY_B
           /\ caller_graph.edges[e] = 1
    /\ Cardinality(DOMAIN caller_graph.edges) >= 3

\* the node a member of the relation index is matched by
MemberNode(m) == ProteinNode(committed.proteins[m])

\* the part-of edges enrich_protein is to provide for the graph g: one for
\* each pathway node of g and each member that is not a node of g
MissingMemberEdges(g) ==
    UNION { { <<MemberNode(m), PART_OF, w>> :
                  m \in {x \in MembersOfNode(committed, w) : MemberNode(x) \notin g.nodes} } :
            w \in g.nodes }

\* C12: enrich_protein only adds and never duplicates.  For each pathway node
\* of the input graph and each of its members: a member that is not a node
\* gets its protein node and exactly one part-of edge to that pathway node, a
\* member that is a node gets nothing; nothing else is added, and every node
\* and every edge of the input graph is still present.
C12_EnrichProteinOnlyAdds ==
    (Len(enrich_calls) >= 2 /\ LastCall = "enrich_protein") =>
        /\ previous_graph.nodes \subseteq caller_graph.nodes
        /\ \A e \in DOMAIN previous_graph.edges :
               EdgeCount(caller_graph, e) >= previous_graph.edges[e]
        /\ \A w \in previous_graph.nodes : \A m \in MembersOfNode(committed, w) :
               IF MemberNode(m) \notin previous_graph.nodes
               THEN /\ MemberNode(m) \in caller_graph.nodes
                    /\ EdgeCount(caller_graph, <<MemberNode(m), PART_OF, w>>) = 1
               ELSE EdgeCount(caller_graph, <<MemberNode(m), PART_OF, w>>)
                        = EdgeCount(previous_graph, <<MemberNode(m), PART_OF, w>>)
        /\ caller_graph.nodes \ previous_graph.nodes
               = {e[1] : e \in MissingMemberEdges(previous_graph)}
        /\ \A e \in DOMAIN caller_graph.edges :
               EdgeCount(caller_graph, e) # EdgeCount(previous_graph, e) =>
                   e \in MissingMemberEdges(previous_graph)

\* a seed of 4 nodes and 3 edges whose pathway has one member present and one
\* absent becomes 5 nodes and 4 edges
C12_Witness ==
    /\ enrich_calls = <<"graph", "enrich_protein">>
    /\ Cardinality(previous_graph.nodes) = 4
    /\ Cardinality(DOMAIN previous_graph.edges) = 3
    /\ PATHWAY_A \in previous_graph.nodes
    /\ Cardinality(MembersOfNode(committed, PATHWAY_A)) = 2
    /\ \E m \in MembersOfNode(committed, PATHWAY_A) : MemberNode(m) \in previous_graph.nodes
    /\ \E m \in MembersOfNode(committed, PATHWAY_A) :
           /\ MemberNode(m) \notin previous_graph.nodes
           /\ EdgeCount(caller_graph, <<MemberNode(m), PART_OF, PATHWAY_A>>) = 1
    /\ Cardinality(caller_graph.nodes) = 5
    /\ Cardinality(DOMAIN caller_graph.edges) = 4

\* Manager.populate is about to build the relation index of an enrichment
SpecEnrichInit ==
    /\ ParserInit /\ ProjectIdle /\ EnrichIdle
    /\ pathways_lines \in IndexPathwayFiles
    /\ entity_pathway_df \in IndexMembershipFiles
    /\ bad_records = {}
    /\ organisms = NoOrganisms
    /\ ManagerStart

SpecEnrichNext ==
    \/ Populate
    \/ PopulatePathway
    \/ CommitPathways
    \/ FetchProteins
    \/ ParseProtein
    \/ LoadProtein
    \/ LinkMembership
    \/ CommitProteins
    \/ \E g \in CallerGraphs : SupplyGraph(g)
    \/ EnrichPathway
    \/ EnrichProtein

SpecEnrich == SpecEnrichInit /\ [][SpecEnrichNext]_vars

====
